---------------------------- MODULE Spec2Model ----------------------------
(***************************************************************************)
(* Model of the stock dashboard: the scoring function score_stock, the     *)
(* ranking pipeline analyze_stocks with its batch fetch fetch_batch_data    *)
(* (src/app.py), and the live tracker live_track_and_plot                   *)
(* (src/unnamed/part_000, "Stock Analyser.py").                             *)
(*                                                                         *)
(* Numbers.  Python floats are modelled as exact fixed-point integers:      *)
(*   - a MarketFacts field holds tenths        (5.0  is 50, 17.5 is 175);   *)
(*   - a score holds hundredths                (50.5 is 5050);              *)
(*   - a tracked price holds cents             ($100.50 is 10050);          *)
(*   - a percentage change / alert threshold holds hundredths of a percent. *)
(* Python's None is the empty tuple, a present value v the tuple <<v>>.     *)
(***************************************************************************)
EXTENDS Integers, Sequences, FiniteSets, TLC

VARIABLES
    \* ---- score_stock ----
    stock,            \* the dict handed to score_stock
    score,            \* what score_stock returned (None before the call)
    \* ---- analyze_stocks / fetch_batch_data (src/app.py) ----
    stock_list,       \* argument of analyze_stocks
    rpc,              \* position in analyze_stocks
    depth,            \* active frames of fetch_batch_data
    hist_data,        \* result of the batch download, per symbol
    idx,              \* position of the for loop over stock_list
    data,             \* rows appended so far
    df,               \* the returned table
    skipped,          \* symbols a "Skipping ..." / "Error ..." notice named
    notice,           \* st.warning / st.error raised by the last step
    slept,            \* seconds of time.sleep performed by the last step
    fetch_arg,        \* the symbols argument of the innermost fetch_batch_data
    err,              \* exception that left analyze_stocks ("none" if none)
    \* ---- live_track_and_plot (src/unnamed/part_000) ----
    tpc,              \* position of the tracker
    alert_threshold,  \* parameter alert_threshold
    duration,         \* parameter duration (minutes)
    initial_prices,   \* initial_prices
    price_history,    \* price_history
    timestamps,       \* timestamps
    now,              \* wall clock, seconds since start_time was taken
    end_time,         \* end_time
    fig_open,         \* the figure exists (plt.close(fig) not yet called)
    frame,            \* number of calls of update made by the animation
    sym_i,            \* position of the for loop of update
    fetched,          \* what ticker.info.get returned in update's last iteration
    alerts            \* ALERT lines printed so far

vars == <<stock, score,
          stock_list, rpc, depth, hist_data, idx, data, df, skipped, notice,
          slept, fetch_arg, err,
          tpc, alert_threshold, duration, initial_prices, price_history,
          timestamps, now, end_time, fig_open, frame, sym_i, fetched,
          alerts>>

scoreVars == <<stock, score>>

rankVars == <<stock_list, rpc, depth, hist_data, idx, data, df, skipped,
              notice, slept, fetch_arg, err>>

trackVars == <<tpc, alert_threshold, duration, initial_prices, price_history,
               timestamps, now, end_time, fig_open, frame, sym_i, fetched,
               alerts>>

None == << >>

Some(v) == <<v>>

Abs(x) == IF x < 0 THEN -x ELSE x

Min(a, b) == IF a < b THEN a ELSE b

Max(a, b) == IF a > b THEN a ELSE b

-----------------------------------------------------------------------------
(***************************************************************************)
(* score_stock                                                             *)
(***************************************************************************)

\* Values a field of the dict can take (tenths), None apart.
PriceChangeVals == {-110, -100, 50, 100, 120}

VolumeChangeVals == {-510, 0, 200, 500}

PEVals == {-50, 0, 90, 100, 180, 250, 260}

DividendVals == {0, 10, 11, 30, 50, 65}

DistVals == {-201, -200, -50, 0}

RecVals == {18, 20, 21, 30, 31}

Opt(S) == {None} \cup {Some(v) : v \in S}

\* The dicts score_stock is applied to.  'Dividend Yield' is never None:
\* both callers build it as (info.get('dividendYield', 0) or 0) * 100.
MarketFacts ==
    [ PriceChange : Opt(PriceChangeVals),
      VolumeChange : Opt(VolumeChangeVals),
      PE : Opt(PEVals),
      DividendYield : DividendVals,
      Dist52W : Opt(DistVals),
      AnalystRec : Opt(RecVals) ]

\* score_stock with the 52-week test written > for >=.
score_stock_DistStrict(st) ==
    LET s0 == 0
        s1 == IF st.PriceChange # None
              THEN s0 + Max(Min(st.PriceChange[1], 100), -100) * 30
              ELSE s0
        s2 == IF st.VolumeChange # None
              THEN s1 + Max(Min(st.VolumeChange[1], 500), -500) * 4
              ELSE s1
        pe == st.PE
        s3 == IF pe # None /\ pe[1] # 0 /\ pe[1] > 0
              THEN IF 100 <= pe[1] /\ pe[1] <= 250
                   THEN s2 + 1000
                   ELSE s2 - Abs(pe[1] - 175) * 5
              ELSE s2
        dy == st.DividendYield
        s4 == IF dy > 10 THEN s3 + Min(dy, 50) * 20 ELSE s3
        dist == st.Dist52W
        s5 == IF dist # None
              THEN IF dist[1] > -200
                   THEN s4 + (200 + dist[1]) * 5
                   ELSE s4 - 1000
              ELSE s4
        rec == st.AnalystRec
        s6 == IF rec # None
              THEN IF rec[1] <= 20 THEN s5 + 1000
                   ELSE IF rec[1] <= 30 THEN s5 + 500
                   ELSE s5 - 500
              ELSE s5
    IN  s6

\* score_stock, statement by statement; the running score is in hundredths.
score_stock(st) ==
    LET s0 == 0
        s1 == IF st.PriceChange # None
              THEN s0 + Max(Min(st.PriceChange[1], 100), -100) * 30
              ELSE s0
        s2 == IF st.VolumeChange # None
              THEN s1 + Max(Min(st.VolumeChange[1], 500), -500) * 4
              ELSE s1
        pe == st.PE
        s3 == IF pe # None /\ pe[1] # 0 /\ pe[1] > 0
              THEN IF 100 <= pe[1] /\ pe[1] <= 250
                   THEN s2 + 1000
                   ELSE s2 - Abs(pe[1] - 175) * 5
              ELSE s2
        dy == st.DividendYield
        s4 == IF dy > 10 THEN s3 + Min(dy, 50) * 20 ELSE s3
        dist == st.Dist52W
        s5 == IF dist # None
              THEN IF dist[1] >= -200
                   THEN s4 + (200 + dist[1]) * 5
                   ELSE s4 - 1000
              ELSE s4
        rec == st.AnalystRec
        s6 == IF rec # None
              THEN IF rec[1] <= 20 THEN s5 + 1000
                   ELSE IF rec[1] <= 30 THEN s5 + 500
                   ELSE s5 - 500
              ELSE s5
    IN  s6

IdleStock ==
    [ PriceChange |-> None, VolumeChange |-> None, PE |-> None,
      DividendYield |-> 0, Dist52W |-> None, AnalystRec |-> None ]

-----------------------------------------------------------------------------
(***************************************************************************)
(* score_stock called on its own                                           *)
(***************************************************************************)

\* One call of score_stock on the dict in stock.
ScoreCall ==
    /\ score = None
    /\ score' = Some(score_stock(stock))
    /\ UNCHANGED <<stock, rankVars, trackVars>>

-----------------------------------------------------------------------------
(***************************************************************************)
(* fetch_batch_data and analyze_stocks (src/app.py)                        *)
(***************************************************************************)

\* The head of the module's list of symbols.
stocks == <<"AAPL", "MSFT", "GOOGL", "AMZN", "TSLA", "NVDA", "META", "JPM">>

\* Longest stock_list given to analyze_stocks.
MaxSymbols == 5

\* Frames the interpreter allows: fetch_batch_data retries by calling itself,
\* so every failed attempt keeps one more frame (CPython's default limit;
\* the frames of the callers only lower the number of retries that fit).
RecursionLimit == 1000

SymbolsOf(list) == {list[j] : j \in 1..Len(list)}

\* What the batch download holds for a symbol: no column at all, fewer than
\* two rows, rows the change computation raises on, or two usable rows.
HistKinds == {"absent", "short", "bad", "ok"}

\* The dicts built at lines 113-122 from the provider's answers; the fields
\* computed at lines 88-111 are drawn, not derived.
RankFacts ==
    { [ PriceChange |-> Some(50), VolumeChange |-> Some(200), PE |-> Some(180),
        DividendYield |-> 0, Dist52W |-> Some(-50), AnalystRec |-> Some(18) ],
      [ PriceChange |-> Some(100), VolumeChange |-> Some(0), PE |-> None,
        DividendYield |-> 0, Dist52W |-> None, AnalystRec |-> None ] }

\* Lines 64-69: the download raised; warn, sleep 60 and call again.
FetchFail ==
    /\ rpc = "fetch"
    /\ depth < RecursionLimit
    /\ notice' = "warning"
    /\ slept' = 60
    /\ depth' = depth + 1
    /\ fetch_arg' = fetch_arg
    /\ UNCHANGED <<stock_list, rpc, hist_data, idx, data, df, skipped, err>>
    /\ UNCHANGED <<scoreVars, trackVars>>

\* Lines 64-69 with no frame left: the call at line 69 raises RecursionError,
\* which no frame handles (the call is outside the try) and analyze_stocks
\* does not catch at line 74.
FetchOverflow ==
    /\ rpc = "fetch"
    /\ depth = RecursionLimit
    /\ notice' = "warning"
    /\ slept' = 60
    /\ err' = "RecursionError"
    /\ rpc' = "raised"
    /\ depth' = 0
    /\ UNCHANGED <<stock_list, hist_data, idx, data, df, skipped, fetch_arg>>
    /\ UNCHANGED <<scoreVars, trackVars>>

\* Lines 65 and 70, then line 74: the download answered; every frame returns.
FetchSucceed ==
    /\ rpc = "fetch"
    /\ hist_data' \in [SymbolsOf(fetch_arg) -> HistKinds]
    /\ depth' = 0
    /\ notice' = "none"
    /\ slept' = 0
    /\ idx' = 1
    /\ rpc' = "loop"
    /\ UNCHANGED <<stock_list, data, df, skipped, fetch_arg, err>>
    /\ UNCHANGED <<scoreVars, trackVars>>

\* Lines 76-85: the symbol is skipped with a warning.
LoopSkip ==
    /\ rpc = "loop"
    /\ idx <= Len(stock_list)
    /\ hist_data[stock_list[idx]] \in {"absent", "short"}
    /\ notice' = "warning"
    /\ skipped' = skipped \cup {stock_list[idx]}
    /\ idx' = idx + 1
    /\ UNCHANGED <<stock_list, rpc, depth, hist_data, data, df, slept,
                   fetch_arg, err>>
    /\ UNCHANGED <<scoreVars, trackVars>>

\* Lines 87-97 and 127-129: an exception while the fields are computed, in
\* the change computation or in fetch_stock_info and what follows it.
LoopError ==
    /\ rpc = "loop"
    /\ idx <= Len(stock_list)
    /\ hist_data[stock_list[idx]] \in {"bad", "ok"}
    /\ notice' = "error"
    /\ skipped' = skipped \cup {stock_list[idx]}
    /\ idx' = idx + 1
    /\ UNCHANGED <<stock_list, rpc, depth, hist_data, data, df, slept,
                   fetch_arg, err>>
    /\ UNCHANGED <<scoreVars, trackVars>>

\* Lines 87-125: the symbol is scored and its row appended.
LoopRow ==
    /\ rpc = "loop"
    /\ idx <= Len(stock_list)
    /\ hist_data[stock_list[idx]] = "ok"
    /\ \E facts \in RankFacts :
         data' = Append(data, [ Symbol |-> stock_list[idx],
                                Score |-> score_stock(facts) ])
    /\ notice' = "none"
    /\ idx' = idx + 1
    /\ UNCHANGED <<stock_list, rpc, depth, hist_data, df, skipped, slept,
                   fetch_arg, err>>
    /\ UNCHANGED <<scoreVars, trackVars>>

\* The orders df.sort_values(by='Score', ascending=False) can return: kind
\* defaults to 'quicksort', which is not a stable sort, so rows of equal
\* Score come out in any order.
SortedByScore(rows) ==
    { [k \in 1..Len(rows) |-> rows[p[k]]] :
        p \in { q \in [1..Len(rows) -> 1..Len(rows)] :
                  /\ \A a, b \in 1..Len(rows) : a # b => q[a] # q[b]
                  /\ \A a, b \in 1..Len(rows) :
                        a < b => rows[q[a]].Score >= rows[q[b]].Score } }

\* Lines 131-133 with rows: the table is sorted and returned.
SortRows ==
    /\ rpc = "loop"
    /\ idx > Len(stock_list)
    /\ data # << >>
    /\ df' \in SortedByScore(data)
    /\ rpc' = "done"
    /\ notice' = "none"
    /\ UNCHANGED <<stock_list, depth, hist_data, idx, data, skipped, slept,
                   fetch_arg, err>>
    /\ UNCHANGED <<scoreVars, trackVars>>

\* Lines 131-132 without rows: pd.DataFrame([]) has no column 'Score', and
\* sort_values(by='Score') raises KeyError.
SortEmpty ==
    /\ rpc = "loop"
    /\ idx > Len(stock_list)
    /\ data = << >>
    /\ err' = "KeyError"
    /\ rpc' = "raised"
    /\ notice' = "none"
    /\ UNCHANGED <<stock_list, depth, hist_data, idx, data, df, skipped, slept,
                   fetch_arg>>
    /\ UNCHANGED <<scoreVars, trackVars>>

-----------------------------------------------------------------------------
(***************************************************************************)
(* live_track_and_plot                                                     *)
(***************************************************************************)

\* Argument stock_symbols.
stock_symbols == <<"AAPL", "MSFT">>

TrackedSet == {stock_symbols[j] : j \in 1..Len(stock_symbols)}

\* Parameter interval (seconds between two calls of update).
interval == 30

\* Largest delay, in seconds, by which the timer calls update late.
MaxLag == 1

\* Values of the parameters duration (minutes) and alert_threshold
\* (hundredths of a percent: 100 is the default 1.0).
Durations == {1}

Thresholds == {50, 100}

\* Prices 'regularMarketPrice' can report, in cents.
PriceVals == {9800, 10000, 10050}

\* time.strftime("%H:%M:%S") of a clock value in seconds.
strftime(t) == <<(t \div 3600) % 24, (t \div 60) % 60, t % 60>>

\* '{x:.2f}' of the quotient num / den (den > 0), in hundredths when num is
\* in hundredths: the nearest integer, an exact tie going to the even one.
Format2f(num, den) ==
    LET q == num \div den
        r == num - q * den
    IN  IF 2 * r < den THEN q
        ELSE IF 2 * r > den THEN q + 1
        ELSE IF q % 2 = 0 THEN q ELSE q + 1

\* The deadline test with >= for >.
PastDeadline_GE(current_time) == current_time >= end_time

\* Line 137: the deadline test of update.
PastDeadline(current_time) == current_time > end_time

\* The timestamp appended as two entries.
StampTick_Twice(ts, current_time) ==
    Append(Append(ts, strftime(current_time)), strftime(current_time))

\* Line 142: the timestamp of a tick.
StampTick(ts, current_time) == Append(ts, strftime(current_time))

\* A failed fetch recorded as 0 instead of the last known price.
PolledPrice_Zero(got, hist) == IF got = None THEN 0 ELSE got[1]

\* Lines 146-147: the price of a tick, given what the fetch returned.
PolledPrice(got, hist) ==
    IF got = None
    THEN (IF hist # << >> THEN hist[Len(hist)] ELSE 0)
    ELSE got[1]

\* The threshold test with > for >=.
ShouldAlert_Strict(price, initial_price, threshold) ==
    IF initial_price > 0
    THEN Abs((price - initial_price) * 10000) > threshold * initial_price
    ELSE FALSE

\* Lines 151-153: whether the tick's price raises an alert.  change_pct is
\* (price - initial_price) / initial_price * 100, compared exactly.
ShouldAlert(price, initial_price, threshold) ==
    IF initial_price > 0
    THEN Abs((price - initial_price) * 10000) >= threshold * initial_price
    ELSE FALSE

\* Symbols whose price the running (or last) call of update has appended.
polled == {stock_symbols[j] : j \in 1..(sym_i - 1)}

\* Lines 107-133: the initial fetch of every symbol, the deadline, the figure.
Initialize ==
    /\ tpc = "init"
    /\ \E got \in [TrackedSet -> Opt(PriceVals)] :
         LET price(s) == IF got[s] = None THEN 0 ELSE got[s][1]
         IN  /\ initial_prices' = [s \in TrackedSet |-> price(s)]
             /\ price_history' =
                  [s \in TrackedSet |-> Append(price_history[s], price(s))]
    /\ now' = 0
    /\ end_time' = 0 + duration * 60
    /\ fig_open' = TRUE
    /\ tpc' = "idle"
    /\ UNCHANGED <<alert_threshold, duration, timestamps, frame, sym_i, fetched,
                   alerts>>
    /\ UNCHANGED <<scoreVars, rankVars>>

\* The clock at the next call of update: the animation draws frame 0 when the
\* figure is shown and then fires every interval seconds, possibly late.
TickTimes ==
    {now + (IF frame = 0 THEN 0 ELSE interval) + lag : lag \in 0..MaxLag}

\* Lines 135-140: update called after the deadline.
UpdateDeadline ==
    /\ tpc = "idle"
    /\ fig_open
    /\ \E current_time \in TickTimes :
         /\ PastDeadline(current_time)
         /\ now' = current_time
    /\ fig_open' = FALSE
    /\ frame' = frame + 1
    /\ UNCHANGED <<tpc, alert_threshold, duration, initial_prices,
                   price_history, timestamps, end_time, sym_i, fetched, alerts>>
    /\ UNCHANGED <<scoreVars, rankVars>>

\* Lines 135-142: update called before the deadline, up to the for loop.
UpdateBegin ==
    /\ tpc = "idle"
    /\ fig_open
    /\ \E current_time \in TickTimes :
         /\ ~PastDeadline(current_time)
         /\ now' = current_time
         /\ timestamps' = StampTick(timestamps, current_time)
    /\ frame' = frame + 1
    /\ sym_i' = 1
    /\ tpc' = "poll"
    /\ UNCHANGED <<alert_threshold, duration, initial_prices, price_history,
                   end_time, fig_open, fetched, alerts>>
    /\ UNCHANGED <<scoreVars, rankVars>>

\* Lines 143-156: one iteration of the for loop of update.
PollSymbol ==
    /\ tpc = "poll"
    /\ sym_i <= Len(stock_symbols)
    /\ \E got \in Opt(PriceVals) :
         LET sym == stock_symbols[sym_i]
             hist == price_history[sym]
             price == PolledPrice(got, hist)
             initial_price == initial_prices[sym]
         IN  /\ fetched' = got
             /\ price_history' = [price_history EXCEPT ![sym] = Append(hist, price)]
             /\ IF ShouldAlert(price, initial_price, alert_threshold)
                THEN alerts' = Append(alerts,
                         [ symbol |-> sym,
                           change_pct |-> Format2f((price - initial_price) * 10000,
                                                   initial_price),
                           baseline_price |-> initial_price,
                           price |-> price ])
                ELSE alerts' = alerts
    /\ sym_i' = sym_i + 1
    /\ UNCHANGED <<tpc, alert_threshold, duration, initial_prices, timestamps,
                   now, end_time, fig_open, frame>>
    /\ UNCHANGED <<scoreVars, rankVars>>

\* Lines 158-161: the end of update.
UpdateEnd ==
    /\ tpc = "poll"
    /\ sym_i > Len(stock_symbols)
    /\ tpc' = "idle"
    /\ UNCHANGED <<alert_threshold, duration, initial_prices, price_history,
                   timestamps, now, end_time, fig_open, frame, sym_i, fetched,
                   alerts>>
    /\ UNCHANGED <<scoreVars, rankVars>>

-----------------------------------------------------------------------------
(***************************************************************************)
(* Specifications                                                          *)
(***************************************************************************)

\* The parts of the state a specification does not use stay as they are here.
ScoreIdle == stock = IdleStock /\ score = None

RankIdle ==
    /\ stock_list = << >>
    /\ rpc = "off"
    /\ depth = 0
    /\ hist_data = << >>
    /\ idx = 0
    /\ data = << >>
    /\ df = << >>
    /\ skipped = {}
    /\ notice = "none"
    /\ slept = 0
    /\ fetch_arg = << >>
    /\ err = "none"

TrackIdle ==
    /\ tpc = "off"
    /\ alert_threshold = 0
    /\ duration = 0
    /\ initial_prices = << >>
    /\ price_history = << >>
    /\ timestamps = << >>
    /\ now = 0
    /\ end_time = 0
    /\ fig_open = FALSE
    /\ frame = 0
    /\ sym_i = 1
    /\ fetched = None
    /\ alerts = << >>

\* live_track_and_plot entered with its arguments, lines 107-109 done.
InitTrack ==
    /\ tpc = "init"
    /\ alert_threshold \in Thresholds
    /\ duration \in Durations
    /\ initial_prices = << >>
    /\ price_history = [s \in TrackedSet |-> << >>]
    /\ timestamps = << >>
    /\ now = 0
    /\ end_time = 0
    /\ fig_open = FALSE
    /\ frame = 0
    /\ sym_i = 1
    /\ fetched = None
    /\ alerts = << >>
    /\ ScoreIdle
    /\ RankIdle

NextTrack ==
    \/ Initialize
    \/ UpdateDeadline
    \/ UpdateBegin
    \/ PollSymbol
    \/ UpdateEnd

SpecTrack == InitTrack /\ [][NextTrack]_vars

\* score_stock about to be called on any of the dicts.
InitScore ==
    /\ stock \in MarketFacts
    /\ score = None
    /\ RankIdle
    /\ TrackIdle

NextScore == ScoreCall

SpecScore == InitScore /\ [][NextScore]_vars

\* analyze_stocks entered (line 73 done) and fetch_batch_data called (line 74).
InitRank ==
    /\ stock_list \in {SubSeq(stocks, 1, n) : n \in 0..MaxSymbols}
    /\ rpc = "fetch"
    /\ depth = 1
    /\ hist_data = << >>
    /\ idx = 0
    /\ data = << >>
    /\ df = << >>
    /\ skipped = {}
    /\ notice = "none"
    /\ slept = 0
    /\ fetch_arg = stock_list
    /\ err = "none"
    /\ ScoreIdle
    /\ TrackIdle

NextRank ==
    \/ FetchFail
    \/ FetchOverflow
    \/ FetchSucceed
    \/ LoopSkip
    \/ LoopError
    \/ LoopRow
    \/ SortRows
    \/ SortEmpty

SpecRank == InitRank /\ [][NextRank]_vars

-----------------------------------------------------------------------------
(***************************************************************************)
(* Properties of score_stock (checked under SpecScore)                     *)
(***************************************************************************)

Clamp(x, lo, hi) == IF x < lo THEN lo ELSE IF x > hi THEN hi ELSE x

Momentum(f) ==
    IF f.PriceChange = None THEN 0
    ELSE 30 * Clamp(f.PriceChange[1], -100, 100)

VolumePart(f) ==
    IF f.VolumeChange = None THEN 0
    ELSE 4 * Clamp(f.VolumeChange[1], -500, 500)

Valuation(f) ==
    CASE f.PE = None -> 0
      [] f.PE # None /\ f.PE[1] <= 0 -> 0
      [] f.PE # None /\ f.PE[1] > 0 /\ f.PE[1] \in 100..250 -> 1000
      [] OTHER -> -(5 * Abs(f.PE[1] - 175))

Dividend(f) ==
    IF f.DividendYield > 10
    THEN 20 * (IF f.DividendYield < 50 THEN f.DividendYield ELSE 50)
    ELSE 0

Proximity(f) ==
    CASE f.Dist52W = None -> 0
      [] f.Dist52W # None /\ f.Dist52W[1] < -200 -> -1000
      [] OTHER -> 5 * (200 + f.Dist52W[1])

Analyst(f) ==
    CASE f.AnalystRec = None -> 0
      [] f.AnalystRec # None /\ f.AnalystRec[1] <= 20 -> 1000
      [] f.AnalystRec # None /\ f.AnalystRec[1] > 20
                             /\ f.AnalystRec[1] <= 30 -> 500
      [] OTHER -> -500

\* C7: score_stock returns the sum of the six contributions (momentum,
\* volume, valuation, dividend, 52-week proximity, analyst), each 0 when its
\* input is None; a distance of exactly -20 contributes 0 and any lower
\* distance -10.
C7_SumOfContributions ==
    score # None =>
        /\ score[1] = Momentum(stock) + VolumePart(stock) + Valuation(stock)
                      + Dividend(stock) + Proximity(stock) + Analyst(stock)
        /\ stock.Dist52W = Some(-200) => Proximity(stock) = 0
        /\ stock.Dist52W = Some(-201) => Proximity(stock) = -1000

\* C7 witness: the end-to-end example (5, 20, 18, 0, -5, 1.8) scored 50.5.
C7_Witness ==
    /\ stock = [ PriceChange |-> Some(50), VolumeChange |-> Some(200),
                 PE |-> Some(180), DividendYield |-> 0,
                 Dist52W |-> Some(-50), AnalystRec |-> Some(18) ]
    /\ score = Some(5050)

-----------------------------------------------------------------------------
(***************************************************************************)
(* Properties of analyze_stocks (checked under SpecRank)                   *)
(***************************************************************************)

RowsOf(table, s) == {k \in 1..Len(table) : table[k].Symbol = s}

PositionIn(list, s) == CHOOSE j \in 1..Len(list) : list[j] = s

\* C3: however many attempts of the batch download fail in a row,
\* fetch_batch_data surfaces no error to its caller: after each failed
\* attempt it warns, waits 60 and retries with the same symbols, without a
\* cap, and it leaves only by returning a successful result.
C3_RetryForever ==
    [][ rpc = "fetch" =>
          /\ err' = "none"
          /\ rpc' \in {"fetch", "loop"}
          /\ rpc' = "fetch" =>
                /\ notice' = "warning"
                /\ slept' = 60
                /\ fetch_arg' = fetch_arg ]_vars

\* C4: no per-symbol fault aborts analyze_stocks: a symbol that is missing
\* from the batch result, has fewer than two observations or raises while
\* its fields are computed is skipped, and the table holds exactly one row
\* for every other symbol and none for a skipped one.
C4_FaultIsolation ==
    /\ err # "KeyError"
    /\ rpc = "done" =>
          \A s \in SymbolsOf(stock_list) :
              /\ hist_data[s] # "ok" => s \in skipped
              /\ Cardinality(RowsOf(df, s)) = (IF s \in skipped THEN 0 ELSE 1)

\* C5: when every symbol of the list was skipped, or the list is empty,
\* analyze_stocks returns an empty table and raises nothing.
C5_EmptyTable ==
    (rpc \in {"done", "raised"} /\ idx > Len(stock_list) /\ data = << >>) =>
        (rpc = "done" /\ df = << >> /\ err = "none")

\* C6: the returned table is in descending order of Score, and two rows of
\* equal Score keep the relative order their symbols have in stock_list.
C6_StableDescending ==
    rpc = "done" =>
        \A a, b \in 1..Len(df) :
            a < b =>
                /\ df[a].Score >= df[b].Score
                /\ df[a].Score = df[b].Score =>
                      PositionIn(stock_list, df[a].Symbol)
                          < PositionIn(stock_list, df[b].Symbol)

-----------------------------------------------------------------------------
(***************************************************************************)
(* Properties of live_track_and_plot (checked under SpecTrack)             *)
(***************************************************************************)

Last(q) == q[Len(q)]

\* The tracker is between two calls of update (after initialization).
Polling == tpc = "idle" /\ fig_open

\* update has seen the deadline passed and closed the figure.
Complete == tpc = "idle" /\ ~fig_open

\* Polling ticks completed when the tracker is between two calls of update.
TicksDone == IF fig_open THEN frame ELSE frame - 1

\* C1: right after initialization and after each completed polling tick,
\* every tracked symbol's price_history is as long as timestamps, and after
\* N completed ticks both hold N+1 entries.
C1_HistoryAligned ==
    tpc = "idle" =>
        \A s \in TrackedSet :
            /\ Len(price_history[s]) = Len(timestamps)
            /\ Len(price_history[s]) = TicksDone + 1
            /\ Len(timestamps) = TicksDone + 1

\* C2: in every iteration of a tick, for the symbol polled, an alert carrying
\* the symbol, change_pct (to two decimals), the baseline and the price just
\* appended is emitted if and only if the baseline is > 0 and
\* abs((price - baseline) / baseline * 100) >= alert_threshold; nothing else
\* changes the alerts, and nothing suppresses a repeated alert.
C2_AlertIff ==
    [][ IF tpc = "poll" /\ sym_i' = sym_i + 1
        THEN LET sym == stock_symbols[sym_i]
                 price == Last(price_history'[sym])
                 base == initial_prices[sym]
                 hit == /\ base > 0
                        /\ Abs(price - base) * 100 * 100 >= alert_threshold * base
             IN  IF hit
                 THEN /\ Len(alerts') = Len(alerts) + 1
                      /\ SubSeq(alerts', 1, Len(alerts)) = alerts
                      /\ Last(alerts').symbol = sym
                      /\ Last(alerts').baseline_price = base
                      /\ Last(alerts').price = price
                      /\ 2 * Abs(Last(alerts').change_pct * base
                                 - (price - base) * 10000) <= base
                 ELSE alerts' = alerts
        ELSE alerts' = alerts ]_vars

\* C2 witness: threshold 1.0 and baseline $100: $98 alerted with -2.00 on two
\* consecutive ticks, then $100.50 did not alert.
C2_Witness ==
    /\ alert_threshold = 100
    /\ tpc = "idle"
    /\ initial_prices["AAPL"] = 10000
    /\ initial_prices["MSFT"] = 0
    /\ price_history["AAPL"] = <<10000, 9800, 9800, 10050>>
    /\ alerts = << [symbol |-> "AAPL", change_pct |-> -200,
                    baseline_price |-> 10000, price |-> 9800],
                   [symbol |-> "AAPL", change_pct |-> -200,
                    baseline_price |-> 10000, price |-> 9800] >>

\* C8: a call of update whose current time exceeds end_time, and no earlier
\* one, completes the tracker: it appends nothing, emits no alert and closes
\* the figure; once complete, the tracking state never changes again.
C8_Deadline ==
    [][ /\ (Polling /\ frame' = frame + 1) =>
              IF now' > end_time
              THEN /\ Complete'
                   /\ UNCHANGED <<initial_prices, price_history, timestamps,
                                  alerts, fetched, sym_i>>
              ELSE /\ ~Complete'
                   /\ tpc' = "poll"
        /\ Complete' => now' > end_time
        /\ Complete => UNCHANGED trackVars ]_vars

\* C8 witness: the tracker completed after a tick that polled exactly at the
\* deadline.
C8_Witness ==
    /\ Complete
    /\ now > end_time
    /\ Len(timestamps) = 3
    /\ timestamps[3] = strftime(end_time)

\* C9: each tick appends exactly one entry to every symbol's price_history;
\* when the fetch failed the entry equals the previous last entry, otherwise
\* it is the fetched price; no entry is None.
C9_CarryForward ==
    [][ IF tpc = "init"
        THEN \A s \in TrackedSet :
                /\ Len(price_history'[s]) = 1
                /\ price_history'[s][1] \in PriceVals \cup {0}
        ELSE
          /\ \A s \in TrackedSet :
                price_history'[s] # price_history[s] =>
                    /\ tpc = "poll"
                    /\ s = stock_symbols[sym_i]
                    /\ s \notin polled
                    /\ polled' = polled \cup {s}
                    /\ Len(price_history'[s]) = Len(price_history[s]) + 1
                    /\ SubSeq(price_history'[s], 1, Len(price_history[s]))
                         = price_history[s]
                    /\ Last(price_history'[s]) \in PriceVals \cup {0}
                    /\ IF fetched' = None
                       THEN Last(price_history'[s]) = Last(price_history[s])
                       ELSE Last(price_history'[s]) = fetched'[1]
          /\ (tpc = "poll" /\ polled' # polled) =>
                price_history'[stock_symbols[sym_i]]
                    # price_history[stock_symbols[sym_i]]
          /\ (tpc = "idle" /\ tpc' = "poll") => polled' = {}
          /\ (tpc = "poll" /\ tpc' = "idle") => polled = TrackedSet ]_vars

\* C9 witness: a failed fetch carried $98 forward while another price was
\* known before it.
C9_Witness ==
    /\ tpc = "poll"
    /\ sym_i = 2
    /\ fetched = None
    /\ price_history["AAPL"] = <<10000, 9800, 9800>>

\* C10 as stated: timestamps is appended to only once the prices of all
\* tracked symbols for the tick have been appended.
C10_StampAfterPrices ==
    [][ timestamps' # timestamps => polled' = TrackedSet ]_vars

\* C10 amended: each tick appends to timestamps exactly once, at its start,
\* before the price of any tracked symbol for that tick is fetched or
\* appended; timestamps is never modified otherwise.
C10_StampBeforePrices ==
    [][ /\ timestamps' # timestamps =>
              /\ tpc = "idle" /\ tpc' = "poll"
              /\ polled' = {}
              /\ price_history' = price_history
        /\ (tpc = "idle" /\ tpc' = "poll") =>
              /\ Len(timestamps') = Len(timestamps) + 1
              /\ SubSeq(timestamps', 1, Len(timestamps)) = timestamps
        /\ tpc = "poll" => timestamps' = timestamps ]_vars

\* C10 witness: the second tick has stamped its time and polled no symbol yet.
C10_Witness ==
    /\ tpc = "poll"
    /\ polled = {}
    /\ Len(timestamps) = 2
    /\ \A s \in TrackedSet : Len(price_history[s]) = 2

=============================================================================
